---- MODULE Spec2Model ----
(***************************************************************************)
(* Device supervisor (src/src/main.c): a mutex-guarded status record, a    *)
(* byte-wise line framer and JSON command processor on the UART reader    *)
(* task, a periodic telemetry task, and the app_main startup sequence.    *)
(*                                                                         *)
(* Representation choices                                                  *)
(*  - a byte is a one-character TLA+ string ("NUL" stands for byte 0);    *)
(*    a C string is a sequence of bytes;                                   *)
(*  - a uint64_t is <<d2, d1, d0>>, three base-1000000 digits, value      *)
(*    d2*10^12 + d1*10^6 + d0, so that 64-bit microsecond timestamps and  *)
(*    the INT_MAX saturation stay inside TLC's integer range;             *)
(*  - a cJSON item is a record [type, string, valuestring, valuedouble,   *)
(*    child]; `string` is the member name, `child` the member list in     *)
(*    insertion order; valuedouble is an integer, or for uptime_s the     *)
(*    uint64_t it was converted from;                                     *)
(*  - mcu_temp_c (float 36.5) is held in tenths of a degree.              *)
(***************************************************************************)
EXTENDS Integers, Sequences, FiniteSets, TLC

\* ---------------------------------------------------------------- bounds
MaxSeconds == 1        \* the clock stops advancing after this many seconds
TickUs == 2000000      \* granularity of the modelled clock, in microseconds
BootUs == 400000       \* esp_timer_get_time() when app_main starts
OverRun == 88          \* bytes past the buffer size in the longest junk line
MaxRun == 128          \* most loop iterations of the reader taken as one step

\* ------------------------------------------------------ program constants
SUPV_LINE_BUF == 512
TELEMETRY_PERIOD_MS == 2000
INT_MAX == 2147483647
Million == 1000000

\* ------------------------------------------------------- uint64_t values
U64(d2, d1, d0) == <<d2, d1, d0>>
U64Zero == U64(0, 0, 0)

U64Less(x, y) ==
    \/ x[1] < y[1]
    \/ x[1] = y[1] /\ x[2] < y[2]
    \/ x[1] = y[1] /\ x[2] = y[2] /\ x[3] < y[3]

U64Leq(x, y) == x = y \/ U64Less(x, y)

\* x + y without wrap-around (callers stay below 2^64)
U64Add(x, y) ==
    LET s0 == x[3] + y[3]
        c0 == s0 \div Million
        s1 == x[2] + y[2] + c0
        c1 == s1 \div Million
    IN  U64(x[1] + y[1] + c1, s1 % Million, s0 % Million)

\* x - y for y <= x
U64Sub(x, y) ==
    LET b0 == IF x[3] < y[3] THEN 1 ELSE 0
        r0 == x[3] - y[3] + b0 * Million
        b1 == IF x[2] - b0 < y[2] THEN 1 ELSE 0
        r1 == x[2] - b0 - y[2] + b1 * Million
    IN  U64(x[1] - b1 - y[1], r1, r0)

\* x / 1000000ULL
U64DivMillion(x) == U64(0, x[1], x[2])

\* (uint64_t)INT_MAX
U64IntMax == U64(0, INT_MAX \div Million, INT_MAX % Million)

\* the value of a uint64_t that fits a TLC integer
U64Value(x) == x[2] * Million + x[3]

\* milliseconds as a uint64_t count of microseconds
MsToUs(ms) == U64(0, ms \div 1000, (ms % 1000) * 1000)

\* ------------------------------------------------------------- C strings
S_cmd == <<"c", "m", "d">>
S_id == <<"i", "d">>
S_get_status == <<"g", "e", "t", "_", "s", "t", "a", "t", "u", "s">>
S_get_switches == <<"g", "e", "t", "_", "s", "w", "i", "t", "c", "h", "e", "s">>
S_clear_unread == <<"c", "l", "e", "a", "r", "_", "u", "n", "r", "e", "a", "d">>
S_arm_poweroff == <<"a", "r", "m", "_", "p", "o", "w", "e", "r", "o", "f", "f">>
S_ping == <<"p", "i", "n", "g">>
S_unknown_cmd == <<"u", "n", "k", "n", "o", "w", "n", "_", "c", "m", "d">>
S_unknown_error == <<"u", "n", "k", "n", "o", "w", "n", "_", "e", "r", "r", "o", "r">>
S_ok == <<"o", "k">>
S_proto == <<"p", "r", "o", "t", "o", "-", "0", ".", "1">>
S_abc == <<"a", "b", "c">>
S_z == <<"z">>
S_error == <<"e", "r", "r", "o", "r">>
S_status == <<"s", "t", "a", "t", "u", "s">>
S_switch == <<"s", "w", "i", "t", "c", "h">>
S_event == <<"e", "v", "e", "n", "t">>
S_telemetry == <<"t", "e", "l", "e", "m", "e", "t", "r", "y">>
S_poweroff_ok == <<"p", "o", "w", "e", "r", "o", "f", "f", "_", "o", "k">>
S_uptime_s == <<"u", "p", "t", "i", "m", "e", "_", "s">>
S_battery_pct == <<"b", "a", "t", "t", "e", "r", "y", "_", "p", "c", "t">>
S_pack_mv == <<"p", "a", "c", "k", "_", "m", "v">>
S_pack_ma == <<"p", "a", "c", "k", "_", "m", "a">>
S_mcu_temp_c == <<"m", "c", "u", "_", "t", "e", "m", "p", "_", "c">>
S_unread_ext == <<"u", "n", "r", "e", "a", "d", "_", "e", "x", "t">>
S_last_msg_age_s == <<"l", "a", "s", "t", "_", "m", "s", "g", "_", "a", "g", "e", "_", "s">>
S_heltec == <<"h", "e", "l", "t", "e", "c">>
S_mcu == <<"m", "c", "u">>
S_lte == <<"l", "t", "e">>
S_wifi == <<"w", "i", "f", "i">>
S_bt == <<"b", "t">>
S_bridge_enable == <<"b", "r", "i", "d", "g", "e", "_", "e", "n", "a", "b", "l", "e">>
S_lid_open == <<"l", "i", "d", "_", "o", "p", "e", "n">>
S_charger_online == <<"c", "h", "a", "r", "g", "e", "r", "_", "o", "n", "l", "i", "n", "e">>

\* the bytes of a buffer up to its first NUL: what a const char * reader sees
CString(buf) ==
    LET nul == {i \in 1..Len(buf) : buf[i] = "NUL"}
    IN  IF nul = {} THEN buf
        ELSE SubSeq(buf, 1, (CHOOSE i \in nul : \A j \in nul : i <= j) - 1)

\* strcmp(a, b) == 0
\* (a comparison of the first strlen(b) bytes only)
strcmp0_prefix(a, b) == Len(a) >= Len(b) /\ SubSeq(a, 1, Len(b)) = b

strcmp0(a, b) == a = b

ToLower(c) ==
    CASE c = "C" -> "c" [] c = "M" -> "m" [] c = "D" -> "d" [] c = "I" -> "i"
      [] OTHER -> c

\* cJSON's case_insensitive_strcmp(a, b) == 0
strcasecmp0(a, b) ==
    /\ Len(a) = Len(b)
    /\ \A i \in 1..Len(a) : ToLower(a[i]) = ToLower(b[i])

\* ----------------------------------------------------------- cJSON items
NoName == <<>>
Item(t, name, vs, vd, ch) ==
    [type |-> t, string |-> name, valuestring |-> vs, valuedouble |-> vd, child |-> ch]
\* the NULL pointer, as an item
NullItem == Item("NULL", NoName, <<>>, 0, <<>>)
IsNull(item) == item.type = "NULL"

\* cJSON_IsString(NULL) is false
cJSON_IsString(item) == item.type = "String"

\* ---------------------------------------------------------- cJSON_Parse
\* The codec is a library outside the repository; its documented behaviour
\* is modelled for the JSON subset the request alphabet can spell: objects,
\* arrays, strings without escapes, unsigned integers, blanks between tokens.
\* Then(v) for v the value of `value`, which is computed once however often
\* Then names it (a local variable of the C function)
Once(value, Then(_)) == CHOOSE result \in {Then(v) : v \in {value}} : TRUE

Digits == {"0", "1", "2", "3", "4", "5", "6", "7", "8", "9"}
DigitValue(c) ==
    CASE c = "0" -> 0 [] c = "1" -> 1 [] c = "2" -> 2 [] c = "3" -> 3 [] c = "4" -> 4
      [] c = "5" -> 5 [] c = "6" -> 6 [] c = "7" -> 7 [] c = "8" -> 8 [] c = "9" -> 9

ParseFail == [ok |-> FALSE, item |-> NullItem, pos |-> 0]
ParseOk(item, pos) == [ok |-> TRUE, item |-> item, pos |-> pos]
CharAt(s, i) == IF i >= 1 /\ i <= Len(s) THEN s[i] ELSE "NUL"

RECURSIVE buffer_skip_whitespace(_, _)
buffer_skip_whitespace(s, i) ==
    IF CharAt(s, i) = " " THEN buffer_skip_whitespace(s, i + 1) ELSE i

\* index of the first '"' at or after i, or 0
ClosingQuote(s, i) ==
    LET quotes == {j \in i..Len(s) : s[j] = "\""}
    IN  IF quotes = {} THEN 0 ELSE CHOOSE j \in quotes : \A k \in quotes : j <= k

parse_string(s, i) ==
    IF CharAt(s, i) # "\"" THEN ParseFail
    ELSE Once(ClosingQuote(s, i + 1), LAMBDA e :
           IF e = 0 THEN ParseFail
           ELSE ParseOk(Item("String", NoName, SubSeq(s, i + 1, e - 1), 0, <<>>), e + 1))

RECURSIVE parse_number(_, _, _)
parse_number(s, i, acc) ==
    IF CharAt(s, i) \in Digits
    THEN parse_number(s, i + 1, acc * 10 + DigitValue(s[i]))
    ELSE ParseOk(Item("Number", NoName, <<>>, acc, <<>>), i)

RECURSIVE parse_value(_, _)
RECURSIVE parse_members(_, _, _)
RECURSIVE parse_elements(_, _, _)

\* the member or element parsed, and what follows it
AfterValue(s, acc, v, name, close, type) ==
    Once(buffer_skip_whitespace(s, v.pos), LAMBDA n :
    Once(Append(acc, [v.item EXCEPT !.string = name]), LAMBDA all :
      IF CharAt(s, n) = ","
      THEN IF type = "Object" THEN parse_members(s, n + 1, all)
                              ELSE parse_elements(s, n + 1, all)
      ELSE IF CharAt(s, n) = close
      THEN ParseOk(Item(type, NoName, <<>>, 0, all), n + 1)
      ELSE ParseFail))

\* the members of an object after '{' or ',': "name" : value ...
parse_members(s, i, acc) ==
    Once(parse_string(s, buffer_skip_whitespace(s, i)), LAMBDA k :
      IF ~k.ok THEN ParseFail
      ELSE Once(buffer_skip_whitespace(s, k.pos), LAMBDA c :
             IF CharAt(s, c) # ":" THEN ParseFail
             ELSE Once(parse_value(s, buffer_skip_whitespace(s, c + 1)), LAMBDA v :
                    IF ~v.ok THEN ParseFail
                    ELSE AfterValue(s, acc, v, k.item.valuestring, "}", "Object"))))

\* the elements of an array after '[' or ','
parse_elements(s, i, acc) ==
    Once(parse_value(s, buffer_skip_whitespace(s, i)), LAMBDA v :
      IF ~v.ok THEN ParseFail
      ELSE AfterValue(s, acc, v, NoName, "]", "Array"))

parse_value(s, i) ==
    Once(CharAt(s, i), LAMBDA c :
    Once(buffer_skip_whitespace(s, i + 1), LAMBDA first :
      IF c = "\"" THEN parse_string(s, i)
      ELSE IF c \in Digits THEN parse_number(s, i, 0)
      ELSE IF c = "{"
      THEN IF CharAt(s, first) = "}"
           THEN ParseOk(Item("Object", NoName, <<>>, 0, <<>>), first + 1)
           ELSE parse_members(s, i + 1, <<>>)
      ELSE IF c = "["
      THEN IF CharAt(s, first) = "]"
           THEN ParseOk(Item("Array", NoName, <<>>, 0, <<>>), first + 1)
           ELSE parse_elements(s, i + 1, <<>>)
      ELSE ParseFail))

\* cJSON_Parse(line): the first value of the text; bytes after it are not
\* looked at (require_null_terminated is off).  NullItem is the NULL pointer.
cJSON_Parse(s) ==
    Once(parse_value(s, buffer_skip_whitespace(s, 1)), LAMBDA r :
      IF r.ok THEN r.item ELSE NullItem)

\* cJSON's get_object_item: the first member named `name`, or NULL
RECURSIVE get_object_item(_, _, _)
get_object_item(members, name, case_sensitive) ==
    IF members = <<>> THEN NullItem
    ELSE IF (IF case_sensitive THEN strcmp0(Head(members).string, name)
                               ELSE strcasecmp0(Head(members).string, name))
    THEN Head(members)
    ELSE get_object_item(Tail(members), name, case_sensitive)

cJSON_GetObjectItem(object, name) == get_object_item(object.child, name, FALSE)

cJSON_GetObjectItemCaseSensitive(object, name) == get_object_item(object.child, name, TRUE)

\* ------------------------------------------------------ the state record
supervisor_switch_state_t(lte, wifi, bt, bridge_enable, lid_open, charger_online) ==
    [lte |-> lte, wifi |-> wifi, bt |-> bt, bridge_enable |-> bridge_enable,
     lid_open |-> lid_open, charger_online |-> charger_online]

\* g_state in static storage before supervisor_state_init: all bytes zero
ZeroState ==
    [battery_pct |-> 0, pack_mv |-> 0, pack_ma |-> 0, mcu_temp_c |-> 0,
     unread_ext |-> 0, heltec |-> <<>>, mcu |-> <<>>, poweroff_armed |-> FALSE,
     last_mesh_event_us |-> U64Zero,
     switches |-> supervisor_switch_state_t(FALSE, FALSE, FALSE, FALSE, FALSE, FALSE)]

\* (an initialisation that leaves the power-off latch set)
supervisor_state_init_armed(now) ==
    [battery_pct |-> 78, pack_mv |-> 11750, pack_ma |-> -420, mcu_temp_c |-> 365,
     unread_ext |-> 0, heltec |-> S_ok, mcu |-> S_proto, poweroff_armed |-> TRUE,
     last_mesh_event_us |-> now,
     switches |-> supervisor_switch_state_t(TRUE, FALSE, TRUE, TRUE, FALSE, TRUE)]

\* g_state as supervisor_state_init leaves it when the timer reads `now`
supervisor_state_init(now) ==
    [battery_pct |-> 78, pack_mv |-> 11750, pack_ma |-> -420, mcu_temp_c |-> 365,
     unread_ext |-> 0, heltec |-> S_ok, mcu |-> S_proto, poweroff_armed |-> FALSE,
     last_mesh_event_us |-> now,
     switches |-> supervisor_switch_state_t(TRUE, FALSE, TRUE, TRUE, FALSE, TRUE)]

\* The struct copy `*out = g_state` is not one machine operation.  It is
\* modelled in two halves, split in declaration order after poweroff_armed.
FirstHalf == {"battery_pct", "pack_mv", "pack_ma", "mcu_temp_c", "unread_ext",
              "heltec", "mcu", "poweroff_armed"}
CopyFirstHalf(out, from) ==
    [f \in DOMAIN out |-> IF f \in FirstHalf THEN from[f] ELSE out[f]]
CopySecondHalf(out, from) ==
    [f \in DOMAIN out |-> IF f \in FirstHalf THEN out[f] ELSE from[f]]

\* ------------------------------------------------- compute_last_msg_age
\* (no test for a timer behind the timestamp: the unsigned difference wraps
\* to a huge value and saturates)
compute_last_msg_age_wrapping(state, now_us) ==
    IF state.last_mesh_event_us = U64Zero THEN 0
    ELSE IF U64Less(now_us, state.last_mesh_event_us) THEN INT_MAX
    ELSE LET delta == U64Sub(now_us, state.last_mesh_event_us)
             seconds == U64DivMillion(delta)
         IN  IF U64Less(U64IntMax, seconds) THEN INT_MAX ELSE U64Value(seconds)

compute_last_msg_age(state, now_us) ==
    IF state.last_mesh_event_us = U64Zero \/ U64Less(now_us, state.last_mesh_event_us)
    THEN 0
    ELSE LET delta == U64Sub(now_us, state.last_mesh_event_us)
             seconds == U64DivMillion(delta)
         IN  IF U64Less(U64IntMax, seconds) THEN INT_MAX ELSE U64Value(seconds)

\* --------------------------------------------------- building envelopes
\* F is the set of allocations (numbered in call order within one message)
\* that fail; a failed cJSON_Add*ToObject leaves the object as it was.
cJSON_CreateObject(k, F) ==
    IF k \in F THEN NullItem ELSE Item("Object", NoName, <<>>, 0, <<>>)

\* (the object is named once below, so that it is evaluated once however
\* long the chain of additions it comes from)
add_item_to_object(object, item, k, F) ==
    CHOOSE result \in
        { IF IsNull(o) \/ IsNull(item) \/ k \in F THEN o
          ELSE [o EXCEPT !.child = Append(@, item)] : o \in {object} } : TRUE

cJSON_AddItemToObject(object, name, item, k, F) ==
    add_item_to_object(object, [item EXCEPT !.string = name], k, F)
cJSON_AddNumberToObject(object, name, n, k, F) ==
    add_item_to_object(object, Item("Number", name, <<>>, n, <<>>), k, F)
cJSON_AddStringToObject(object, name, s, k, F) ==
    add_item_to_object(object, Item("String", name, s, 0, <<>>), k, F)
cJSON_AddBoolToObject(object, name, b, k, F) ==
    add_item_to_object(object, Item(IF b THEN "True" ELSE "False", name, <<>>, 0, <<>>), k, F)

\* allocations k .. k+6
build_switch_object(sw, k, F) ==
    LET obj == cJSON_CreateObject(k, F)
    IN  IF IsNull(obj) THEN obj
        ELSE LET o1 == cJSON_AddBoolToObject(obj, S_lte, sw.lte, k + 1, F)
                 o2 == cJSON_AddBoolToObject(o1, S_wifi, sw.wifi, k + 2, F)
                 o3 == cJSON_AddBoolToObject(o2, S_bt, sw.bt, k + 3, F)
                 o4 == cJSON_AddBoolToObject(o3, S_bridge_enable, sw.bridge_enable, k + 4, F)
                 o5 == cJSON_AddBoolToObject(o4, S_lid_open, sw.lid_open, k + 5, F)
             IN  cJSON_AddBoolToObject(o5, S_charger_online, sw.charger_online, k + 6, F)

\* allocations k .. k+16
append_telemetry_fields(obj, state, now_us, include_switch, k, F) ==
    IF IsNull(obj) THEN obj
    ELSE LET o1 == cJSON_AddNumberToObject(obj, S_battery_pct, state.battery_pct, k, F)
             o2 == cJSON_AddNumberToObject(o1, S_pack_mv, state.pack_mv, k + 1, F)
             o3 == cJSON_AddNumberToObject(o2, S_pack_ma, state.pack_ma, k + 2, F)
             o4 == cJSON_AddNumberToObject(o3, S_mcu_temp_c, state.mcu_temp_c, k + 3, F)
             o5 == cJSON_AddNumberToObject(o4, S_unread_ext, state.unread_ext, k + 4, F)
             o6 == cJSON_AddNumberToObject(o5, S_last_msg_age_s,
                                           compute_last_msg_age(state, now_us), k + 5, F)
             o7 == cJSON_AddStringToObject(o6, S_heltec, state.heltec, k + 6, F)
             o8 == cJSON_AddStringToObject(o7, S_mcu, state.mcu, k + 7, F)
             o9 == cJSON_AddNumberToObject(o8, S_uptime_s, U64DivMillion(now_us), k + 8, F)
         IN  IF include_switch
             THEN cJSON_AddItemToObject(o9, S_switch,
                                        build_switch_object(state.switches, k + 9, F), k + 16, F)
             ELSE o9

\* An optional C string (const char *id) is <<>> for NULL and <<s>> otherwise.
NULLPTR == <<>>
Ptr(s) == <<s>>
\* (a reply that never echoes the id)
AddId_omit(root, id, k, F) == root

AddId(root, id, k, F) ==
    IF id # NULLPTR THEN cJSON_AddStringToObject(root, S_id, id[1], k, F) ELSE root

\* Each send_* below is the object handed to send_json_object, or NullItem
\* when the function returns without sending.  Allocation 1 is the root.
send_error_reply(id, error, F) ==
    LET root == cJSON_CreateObject(1, F)
        r1 == AddId(root, id, 2, F)
        r2 == cJSON_AddBoolToObject(r1, S_ok, FALSE, 3, F)
    IN  cJSON_AddStringToObject(r2, S_error,
                                IF error # NULLPTR THEN error[1] ELSE S_unknown_error, 4, F)

send_basic_ok(id, F) ==
    LET root == cJSON_CreateObject(1, F)
        r1 == AddId(root, id, 2, F)
    IN  cJSON_AddBoolToObject(r1, S_ok, TRUE, 3, F)

send_status_response(id, state, now_us, F) ==
    LET root == cJSON_CreateObject(1, F)
        r1 == AddId(root, id, 2, F)
        r2 == cJSON_AddBoolToObject(r1, S_ok, TRUE, 3, F)
        status == cJSON_CreateObject(4, F)
    IN  IF IsNull(root) \/ IsNull(status) THEN r2
        ELSE cJSON_AddItemToObject(r2, S_status,
                 append_telemetry_fields(status, state, now_us, TRUE, 5, F), 22, F)

send_switch_response(id, sw, F) ==
    LET root == cJSON_CreateObject(1, F)
        r1 == AddId(root, id, 2, F)
        r2 == cJSON_AddBoolToObject(r1, S_ok, TRUE, 3, F)
    IN  cJSON_AddItemToObject(r2, S_switch, build_switch_object(sw, 4, F), 11, F)

send_telemetry_event(state, now_us, F) ==
    LET root == cJSON_CreateObject(1, F)
        r1 == cJSON_AddStringToObject(root, S_event, S_telemetry, 2, F)
    IN  append_telemetry_fields(r1, state, now_us, TRUE, 3, F)

send_switch_event(sw, F) ==
    LET root == cJSON_CreateObject(1, F)
        r1 == cJSON_AddStringToObject(root, S_event, S_switch, 2, F)
    IN  cJSON_AddItemToObject(r1, S_switch, build_switch_object(sw, 3, F), 10, F)

send_poweroff_reply(id, F) ==
    LET root == cJSON_CreateObject(1, F)
        r1 == AddId(root, id, 2, F)
        r2 == cJSON_AddBoolToObject(r1, S_ok, TRUE, 3, F)
    IN  cJSON_AddBoolToObject(r2, S_poweroff_ok, TRUE, 4, F)

\* the ping branch of process_command; uptime_seconds() reads the timer now
ping_reply(id, timer, F) ==
    LET root_reply == cJSON_CreateObject(1, F)
        r1 == AddId(root_reply, id, 2, F)
        r2 == cJSON_AddBoolToObject(r1, S_ok, TRUE, 3, F)
    IN  cJSON_AddNumberToObject(r2, S_uptime_s, U64DivMillion(timer), 4, F)

\* index of the cJSON_PrintUnformatted allocation in send_json_object
EncodeAlloc == 23

\* ------------------------------------------------- bytes the host sends
Q(s) == <<"\"">> \o s \o <<"\"">>
Req1(k, v) == <<"{">> \o Q(k) \o <<":">> \o v \o <<"}">>
Req2(k1, v1, k2, v2) ==
    <<"{">> \o Q(k1) \o <<":">> \o v1 \o <<",">> \o Q(k2) \o <<":">> \o v2 \o <<"}">>
LF == <<"\n">>
CRLF == <<"\r", "\n">>
Junk(n) == [i \in 1..n |-> "x"]

L_get_status == Req2(S_cmd, Q(S_get_status), S_id, Q(S_abc)) \o LF
L_get_switches == Req1(S_cmd, Q(S_get_switches)) \o CRLF
L_clear_unread == Req2(S_cmd, Q(S_clear_unread), S_id, Q(S_z)) \o LF
L_arm_poweroff == Req1(S_cmd, Q(S_arm_poweroff)) \o LF
L_ping == Req1(S_cmd, Q(S_ping)) \o LF
L_frobnicate == Req2(S_cmd, Q(<<"f", "r", "o", "b", "n", "i", "c", "a", "t", "e">>), S_id, Q(S_z)) \o LF
L_no_cmd == Req1(S_id, Q(S_z)) \o LF
L_cmd_number == Req2(S_cmd, <<"7">>, S_id, Q(S_z)) \o LF
L_pings == Req1(S_cmd, Q(S_ping \o <<"s">>)) \o LF

\* the requests that read or write the whole record
StoreLines == {L_get_status, L_clear_unread, L_arm_poweroff}

\* one request per branch of the command processor
CommandLines == StoreLines \cup {L_get_switches, L_ping, L_frobnicate, L_no_cmd}

\* every request shape, and lines around the 511-byte limit
ReaderLines ==
    CommandLines \cup
    { L_cmd_number, L_pings,
      Req1(<<"C", "M", "D">>, Q(S_ping)) \o LF,               \* {"CMD":"ping"}
      Req2(S_cmd, <<"7">>, S_cmd, Q(S_ping)) \o LF,           \* {"cmd":7,"cmd":"ping"}
      S_ping \o LF,                                           \* ping
      <<"{">> \o Q(S_cmd) \o <<":">> \o Q(S_ping) \o LF,      \* {"cmd":"ping"
      <<"[">> \o Q(S_cmd) \o <<"]">> \o LF,                   \* ["cmd"]
      Q(S_cmd) \o LF,                                         \* "cmd"
      Req2(S_cmd, Q(S_ping), S_id, <<"7">>) \o LF,            \* {"cmd":"ping","id":7}
      <<" ">> \o Req1(S_cmd, <<" ">> \o Q(S_ping)) \o CRLF,    \* blanks, CR LF
      CRLF,                                                   \* an empty line
      <<"NUL">> \o Req1(S_cmd, Q(S_ping)) \o LF,              \* a leading NUL byte
      Req1(S_cmd, Q(S_ping)) \o <<"NUL", "x">> \o LF,         \* {"cmd":"ping"}, NUL, x
      Req1(S_cmd, Q(S_ping)) \o <<"x">> \o LF,                \* {"cmd":"ping"}x
      Req1(S_cmd, <<"\r">> \o Q(S_ping)) \o LF,               \* CR inside the line
      Junk(SUPV_LINE_BUF - 1) \o LF,                          \* 511 bytes
      Junk(SUPV_LINE_BUF) \o LF,                              \* 512 bytes
      Junk(SUPV_LINE_BUF + OverRun) \o LF,                    \* 600 bytes
      Junk(SUPV_LINE_BUF) \o L_ping }                         \* 512 bytes, then a request

\* ------------------------------------------------------------ the state
VARIABLES
    clock,          \* esp_timer_get_time(), a uint64_t
    g_state,        \* the shared record
    g_state_mutex,  \* "null" before creation, "free", or the task holding it
    history,        \* ghost: every value g_state had between mutations
    pc,             \* where each task is
    snapshot,       \* each task's local `snapshot`
    snapshot_done,  \* ghost: the task's last supervisor_state_snapshot returned
    sw,             \* each task's local `sw`
    now_us,         \* each task's local `now_us`
    line, len,      \* uart_reader_task's buffer: the len bytes stored so far
    delivered,      \* ghost: the last call of process_line, and the line it came from
    after_overflow, \* ghost: the line that ended last was longer than the buffer
    request,        \* process_command's cmd and id for the delivered line
    payload,        \* each task's serialized message inside send_json_object
    uart_tx,        \* the end of the transmit stream: who made the last
                    \* uart_write_bytes call, and whether it wrote the "\n"
    tx_first,       \* ghost: the same for the first call ever made
    written,        \* ghost: what each task wrote for its latest line or cycle
    rx_line,        \* the line the host is sending
    rx_pos,         \* the next byte of rx_line the UART will deliver
    wake_at         \* when telemetry_task's vTaskDelay ends

store == <<g_state, g_state_mutex, history>>
locals == <<snapshot, snapshot_done, sw, now_us>>
framer == <<line, len, delivered, after_overflow, request>>
wire == <<uart_tx, tx_first, written>>
host == <<rx_line, rx_pos>>
vars == <<clock, store, pc, locals, framer, payload, wire, host, wake_at>>

Tasks == {"main", "reader", "telemetry"}
NoRequest == [valid |-> FALSE, cmd |-> <<>>, id |-> NULLPTR]
NotDelivered ==
    [called |-> FALSE, buffer |-> <<>>, text |-> <<>>, bytes |-> 0, state |-> ZeroState]

\* one uart_write_bytes call: who made it, and whether it wrote the "\n"
Chunk(task, newline) == [task |-> task, newline |-> newline]
NoChunk == Chunk("none", FALSE)
\* the bytes of one call: the text of `object`, or the single byte "\n",
\* and the time of the call
Bytes(newline, object, at) == [newline |-> newline, object |-> object, at |-> at]

\* static storage as app_main finds it
Init ==
    /\ clock = U64(0, 0, BootUs)
    /\ g_state = ZeroState
    /\ g_state_mutex = "null"
    /\ history = {}
    /\ pc = [t \in Tasks |-> IF t = "main" THEN "state_init" ELSE "not_created"]
    /\ snapshot = [t \in Tasks |-> ZeroState]
    /\ snapshot_done = [t \in Tasks |-> FALSE]
    /\ sw = [t \in Tasks |-> ZeroState.switches]
    /\ now_us = [t \in Tasks |-> U64Zero]
    /\ line = <<>>
    /\ len = 0
    /\ delivered = NotDelivered
    /\ after_overflow = FALSE
    /\ request = NoRequest
    /\ payload = [t \in Tasks |-> NullItem]
    /\ uart_tx = NoChunk
    /\ tx_first = NoChunk
    /\ written = [t \in Tasks |-> <<>>]
    /\ rx_line = <<>>
    /\ rx_pos = 1
    /\ wake_at = U64Zero

\* ------------------------------------------------------------ the mutex
\* (a take that returns at once, whoever holds the mutex)
MutexAvailable_unguarded == g_state_mutex # "null"

\* xSemaphoreTake(g_state_mutex, portMAX_DELAY) returns only when this holds
MutexAvailable == g_state_mutex = "free"

\* ------------------------------------------------------- send_json_object
\* After building `root` with failed allocations F, send_json_object either
\* serializes it (the task goes on to its two uart_write_bytes calls) or
\* returns with nothing written (root NULL, or cJSON_PrintUnformatted fails).
\* A payload is at least "{}" and shorter than the strnlen limit of 2048.
\* (first a send that still ends the line when there is nothing to send)
send_json_object_newline(task, root, F, after) ==
    IF IsNull(root) \/ EncodeAlloc \in F
    THEN /\ pc' = [pc EXCEPT ![task] = "write_newline"]
         /\ payload' = [payload EXCEPT ![task] = NullItem]
    ELSE /\ pc' = [pc EXCEPT ![task] = "write_payload"]
         /\ payload' = [payload EXCEPT ![task] = root]

send_json_object(task, root, F, after) ==
    IF IsNull(root) \/ EncodeAlloc \in F
    THEN /\ pc' = [pc EXCEPT ![task] = after]
         /\ payload' = [payload EXCEPT ![task] = NullItem]
    ELSE /\ pc' = [pc EXCEPT ![task] = "write_payload"]
         /\ payload' = [payload EXCEPT ![task] = root]

AfterSend(task) ==
    CASE task = "main" -> "done"
      [] task = "reader" -> "line_done"
      [] task = "telemetry" -> "delay"

\* the UART driver appends the bytes of one call to the stream
uart_write_bytes(task, newline, object) ==
    /\ uart_tx' = Chunk(task, newline)
    /\ tx_first' = IF tx_first = NoChunk THEN Chunk(task, newline) ELSE tx_first
    /\ written' = [written EXCEPT ![task] = Append(@, Bytes(newline, object, clock))]

\* uart_write_bytes(SUPV_UART_PORT, payload, len)
WritePayload(task) ==
    /\ pc[task] = "write_payload"
    /\ uart_write_bytes(task, FALSE, payload[task])
    /\ pc' = [pc EXCEPT ![task] = "write_newline"]
    /\ UNCHANGED <<clock, store, locals, framer, payload, host, wake_at>>

\* uart_write_bytes(SUPV_UART_PORT, "\n", 1), then free and return
WriteNewline(task) ==
    /\ pc[task] = "write_newline"
    /\ uart_write_bytes(task, TRUE, NullItem)
    /\ pc' = [pc EXCEPT ![task] = AfterSend(task)]
    /\ payload' = [payload EXCEPT ![task] = NullItem]
    /\ UNCHANGED <<clock, store, locals, framer, host, wake_at>>

\* ---------------------------------------------------------------- clock
Tick ==
    /\ U64Less(clock, U64(0, MaxSeconds, 0))
    /\ clock' = U64Add(clock, U64(0, 0, TickUs))
    /\ UNCHANGED <<store, pc, locals, framer, payload, wire, host, wake_at>>

\* ------------------------------------------------------------- app_main
\* supervisor_state_init(); supervisor_uart_init();
MainInit ==
    /\ pc["main"] = "state_init"
    /\ g_state_mutex' = "free"
    /\ g_state' = supervisor_state_init(clock)
    /\ history' = {supervisor_state_init(clock)}
    /\ pc' = [pc EXCEPT !["main"] = "create_reader"]
    /\ UNCHANGED <<clock, locals, framer, payload, wire, host, wake_at>>

\* xTaskCreate(uart_reader_task, ...)
MainCreateReader ==
    /\ pc["main"] = "create_reader"
    /\ pc' = [pc EXCEPT !["main"] = "create_telemetry", !["reader"] = "read"]
    /\ UNCHANGED <<clock, store, locals, framer, payload, wire, host, wake_at>>

\* xTaskCreate(telemetry_task, ...)
MainCreateTelemetry ==
    /\ pc["main"] = "create_telemetry"
    /\ pc' = [pc EXCEPT !["main"] = "switch_snapshot", !["telemetry"] = "snapshot"]
    /\ UNCHANGED <<clock, store, locals, framer, payload, wire, host, wake_at>>

\* sw = supervisor_switch_snapshot(); send_switch_event(&sw) up to its writes
MainSwitchEvent(F) ==
    /\ pc["main"] = "switch_snapshot"
    /\ MutexAvailable
    /\ sw' = [sw EXCEPT !["main"] = g_state.switches]
    /\ send_json_object("main", send_switch_event(g_state.switches, F), F, "done")
    /\ UNCHANGED <<clock, store, snapshot, snapshot_done, now_us, framer, wire, host,
                   wake_at>>

\* ------------------------------------------------------ uart_reader_task
\* (a dispatch on whatever `cmd` holds, string or not)
process_command_unchecked(root) ==
    Once(cJSON_GetObjectItemCaseSensitive(root, S_cmd), LAMBDA cmd_item :
    Once(cJSON_GetObjectItemCaseSensitive(root, S_id), LAMBDA id_item :
      [valid |-> TRUE, cmd |-> cmd_item.valuestring,
       id |-> IF cJSON_IsString(id_item) THEN Ptr(id_item.valuestring) ELSE NULLPTR]))

\* process_command up to the dispatch: the command and id it will act on
process_command(root) ==
    Once(cJSON_GetObjectItemCaseSensitive(root, S_cmd), LAMBDA cmd_item :
    Once(cJSON_GetObjectItemCaseSensitive(root, S_id), LAMBDA id_item :
      IF ~cJSON_IsString(cmd_item) THEN NoRequest
      ELSE [valid |-> TRUE, cmd |-> cmd_item.valuestring,
            id |-> IF cJSON_IsString(id_item) THEN Ptr(id_item.valuestring) ELSE NULLPTR]))

\* index of the cJSON_Parse allocation of a line
ParseAlloc == 0

\* process_line(line) for the buffer contents buf (NUL-terminated by the caller)
process_line(buf, F) ==
    Once(CString(buf), LAMBDA text :
    Once(IF text = <<>> \/ ParseAlloc \in F THEN NullItem ELSE cJSON_Parse(text),
         LAMBDA root :
      IF IsNull(root) THEN NoRequest
      ELSE IF IsNull(cJSON_GetObjectItem(root, S_cmd)) THEN NoRequest
      ELSE process_command(root)))

\* (a test that lets len reach sizeof(line))
LineOverflow_late(n) == n >= SUPV_LINE_BUF

\* len + 1 >= sizeof(line)
LineOverflow(n) == n + 1 >= SUPV_LINE_BUF

\* ghost: the bytes of a sent line that count toward its length
LineBytes(l) == Cardinality({i \in 1..Len(l) : l[i] \notin {"\r", "\n"}})

\* One iteration of the loop for a received byte (lines 344-360) on the
\* buffer st = [line, len]: the new buffer, and whether process_line is
\* called and with what.  After a newline, len is reset once the call is
\* back (ReaderLineDone); with len = 0 the reset changes nothing.
reader_iteration(st, byte) ==
    IF byte = "\r" THEN [line |-> st.line, len |-> st.len, call |-> FALSE, arg |-> <<>>]
    ELSE IF byte = "\n"
    THEN [line |-> st.line, len |-> st.len, call |-> st.len > 0, arg |-> st.line]
    ELSE IF LineOverflow(st.len)
    THEN [line |-> <<>>, len |-> 0, call |-> FALSE, arg |-> <<>>]
    ELSE [line |-> Append(st.line, byte), len |-> st.len + 1, call |-> FALSE, arg |-> <<>>]

\* The iterations for the bytes bytes[i..n], in order.  The range is split
\* in halves, and the state after the first half is computed once, before
\* the second half is entered, to keep the evaluation shallow.
RECURSIVE reader_iterations(_, _, _, _)
reader_iterations(st, bytes, i, n) ==
    IF i >= n THEN reader_iteration(st, bytes[i])
    ELSE LET mid == (i + n) \div 2
         IN  CHOOSE result \in
                 { reader_iterations([line |-> half.line, len |-> half.len],
                                     bytes, mid + 1, n) :
                   half \in {reader_iterations(st, bytes, i, mid)} } : TRUE

\* The reader consumes the next k received bytes, of which only the last may
\* be a newline: k iterations of lines 340-360, and for a completed line
\* process_line and process_command down to line 289.
ReaderConsume(F, k) ==
    /\ pc["reader"] = "read"
    /\ k >= 1
    /\ rx_pos + k - 1 <= Len(rx_line)
    /\ \A i \in rx_pos..(rx_pos + k - 2) : rx_line[i] # "\n"
    /\ IF rx_pos + k - 1 = Len(rx_line)
       THEN /\ rx_line' = <<>>
            /\ rx_pos' = 1
            /\ after_overflow' = (LineBytes(rx_line) > SUPV_LINE_BUF - 1)
       ELSE /\ rx_line' = rx_line
            /\ rx_pos' = rx_pos + k
            /\ after_overflow' = after_overflow
    /\ \E st \in {reader_iterations([line |-> line, len |-> len], rx_line, rx_pos,
                                     rx_pos + k - 1)} :
       \E req \in {process_line(st.arg, F)} :
           /\ line' = st.line
           /\ len' = st.len
           /\ IF st.call
              THEN /\ delivered' = [called |-> TRUE, buffer |-> st.arg,
                                    text |-> CString(st.arg),
                                    bytes |-> LineBytes(rx_line), state |-> g_state]
                   /\ request' = req
                   /\ now_us' = IF req.valid THEN [now_us EXCEPT !["reader"] = clock]
                                ELSE now_us
                   /\ pc' = [pc EXCEPT !["reader"] = IF req.valid THEN "dispatch"
                                                       ELSE "line_done"]
              ELSE UNCHANGED <<delivered, request, now_us, pc>>
    /\ UNCHANGED <<clock, store, snapshot, snapshot_done, sw, payload, wire, wake_at>>

\* (a return from process_line that keeps the tail of an over-long line)
ReaderLineDone_keep ==
    /\ pc["reader"] = "line_done"
    /\ line' = IF after_overflow THEN line ELSE <<>>
    /\ len' = IF after_overflow THEN len ELSE 0
    /\ delivered' = NotDelivered
    /\ request' = NoRequest
    /\ written' = [written EXCEPT !["reader"] = <<>>]
    /\ snapshot' = [snapshot EXCEPT !["reader"] = ZeroState]
    /\ snapshot_done' = [snapshot_done EXCEPT !["reader"] = FALSE]
    /\ sw' = [sw EXCEPT !["reader"] = ZeroState.switches]
    /\ now_us' = [now_us EXCEPT !["reader"] = U64Zero]
    /\ pc' = [pc EXCEPT !["reader"] = "read"]
    /\ UNCHANGED <<clock, store, payload, uart_tx, tx_first, host, wake_at, after_overflow>>

\* process_line is back: len = 0 (line 352), and the locals of the call are gone
ReaderLineDone ==
    /\ pc["reader"] = "line_done"
    /\ line' = <<>>
    /\ len' = 0
    /\ delivered' = NotDelivered
    /\ request' = NoRequest
    /\ written' = [written EXCEPT !["reader"] = <<>>]
    /\ snapshot' = [snapshot EXCEPT !["reader"] = ZeroState]
    /\ snapshot_done' = [snapshot_done EXCEPT !["reader"] = FALSE]
    /\ sw' = [sw EXCEPT !["reader"] = ZeroState.switches]
    /\ now_us' = [now_us EXCEPT !["reader"] = U64Zero]
    /\ pc' = [pc EXCEPT !["reader"] = "read"]
    /\ UNCHANGED <<clock, store, payload, uart_tx, tx_first, host, wake_at, after_overflow>>

\* one loop iteration: the next byte
ReaderByte(F) == ReaderConsume(F, 1)

\* The iterations up to and including the end of the line being received.
\* They touch only the task's locals and the receive queue, so no other task
\* can tell them from one step.
ReaderLine(F) == ReaderConsume(F, Len(rx_line) - rx_pos + 1)

\* Some iterations at once: up to MaxRun bytes of the line being received.
ReaderRun(F) ==
    LET left == Len(rx_line) - rx_pos + 1
    IN  ReaderConsume(F, IF left > MaxRun THEN MaxRun ELSE left)

\* the if / else-if chain of process_command: the branch taken for cmd
Branch(cmd) ==
    IF strcmp0(cmd, S_get_status) THEN "get_status"
    ELSE IF strcmp0(cmd, S_get_switches) THEN "get_switches"
    ELSE IF strcmp0(cmd, S_clear_unread) THEN "clear_unread"
    ELSE IF strcmp0(cmd, S_arm_poweroff) THEN "arm_poweroff"
    ELSE IF strcmp0(cmd, S_ping) THEN "ping"
    ELSE "unknown_cmd"

Dispatching(branch) ==
    /\ pc["reader"] = "dispatch"
    /\ Branch(request.cmd) = branch

\* get_status: supervisor_state_snapshot(&snapshot), first half of the copy
ReaderStatusSnapshot ==
    /\ Dispatching("get_status")
    /\ MutexAvailable
    /\ g_state_mutex' = "reader"
    /\ snapshot' = [snapshot EXCEPT !["reader"] = CopyFirstHalf(@, g_state)]
    /\ snapshot_done' = [snapshot_done EXCEPT !["reader"] = FALSE]
    /\ pc' = [pc EXCEPT !["reader"] = "snapshot_copy"]
    /\ UNCHANGED <<clock, g_state, history, sw, now_us, framer, payload, wire, host,
                   wake_at>>

\* rest of the copy, xSemaphoreGive, send_status_response up to its writes
ReaderStatusResponse(F) ==
    /\ pc["reader"] = "snapshot_copy"
    /\ g_state_mutex' = "free"
    /\ snapshot' = [snapshot EXCEPT !["reader"] = CopySecondHalf(@, g_state)]
    /\ snapshot_done' = [snapshot_done EXCEPT !["reader"] = TRUE]
    /\ send_json_object("reader",
                        send_status_response(request.id,
                                             CopySecondHalf(snapshot["reader"], g_state),
                                             now_us["reader"], F),
                        F, "line_done")
    /\ UNCHANGED <<clock, g_state, history, sw, now_us, framer, wire, host, wake_at>>

\* get_switches: supervisor_switch_snapshot(), send_switch_response
ReaderSwitches(F) ==
    /\ Dispatching("get_switches")
    /\ MutexAvailable
    /\ sw' = [sw EXCEPT !["reader"] = g_state.switches]
    /\ send_json_object("reader", send_switch_response(request.id, g_state.switches, F),
                        F, "line_done")
    /\ UNCHANGED <<clock, store, snapshot, snapshot_done, now_us, framer, wire, host,
                   wake_at>>

\* clear_unread: handle_clear_unread takes the mutex and stores unread_ext
ReaderClearUnread ==
    /\ Dispatching("clear_unread")
    /\ MutexAvailable
    /\ g_state_mutex' = "reader"
    /\ g_state' = [g_state EXCEPT !.unread_ext = 0]
    /\ pc' = [pc EXCEPT !["reader"] = "clear_stamp"]
    /\ UNCHANGED <<clock, history, locals, framer, payload, wire, host, wake_at>>

\* (a clear that resets the timestamp to "never")
ClearStamp_never(timer) == U64Zero

\* the value handle_clear_unread stores in last_mesh_event_us
ClearStamp(timer) == timer

\* (a handle_clear_unread that returns without xSemaphoreGive)
ReaderClearStamp_holding(F) ==
    /\ pc["reader"] = "clear_stamp"
    /\ g_state' = [g_state EXCEPT !.last_mesh_event_us = ClearStamp(clock)]
    /\ g_state_mutex' = "reader"
    /\ history' = history \cup {g_state'}
    /\ send_json_object("reader", send_basic_ok(request.id, F), F, "line_done")
    /\ UNCHANGED <<clock, locals, framer, wire, host, wake_at>>

\* ... stores last_mesh_event_us, gives the mutex; send_basic_ok
ReaderClearStamp(F) ==
    /\ pc["reader"] = "clear_stamp"
    /\ g_state' = [g_state EXCEPT !.last_mesh_event_us = ClearStamp(clock)]
    /\ g_state_mutex' = "free"
    /\ history' = history \cup {g_state'}
    /\ send_json_object("reader", send_basic_ok(request.id, F), F, "line_done")
    /\ UNCHANGED <<clock, locals, framer, wire, host, wake_at>>

\* (an arm_poweroff that also counts as a mesh event)
ReaderArmPoweroff_stamping(F) ==
    /\ Dispatching("arm_poweroff")
    /\ MutexAvailable
    /\ g_state' = [g_state EXCEPT !.poweroff_armed = TRUE,
                                  !.last_mesh_event_us = clock]
    /\ history' = history \cup {g_state'}
    /\ send_json_object("reader", send_poweroff_reply(request.id, F), F, "line_done")
    /\ UNCHANGED <<clock, g_state_mutex, locals, framer, wire, host, wake_at>>

\* arm_poweroff: handle_arm_poweroff, send_poweroff_reply
ReaderArmPoweroff(F) ==
    /\ Dispatching("arm_poweroff")
    /\ MutexAvailable
    /\ g_state' = [g_state EXCEPT !.poweroff_armed = TRUE]
    /\ history' = history \cup {g_state'}
    /\ send_json_object("reader", send_poweroff_reply(request.id, F), F, "line_done")
    /\ UNCHANGED <<clock, g_state_mutex, locals, framer, wire, host, wake_at>>

\* ping
ReaderPing(F) ==
    /\ Dispatching("ping")
    /\ send_json_object("reader", ping_reply(request.id, clock, F), F, "line_done")
    /\ UNCHANGED <<clock, store, locals, framer, wire, host, wake_at>>

\* the final else: send_error_reply(id, "unknown_cmd")
ReaderUnknown(F) ==
    /\ Dispatching("unknown_cmd")
    /\ send_json_object("reader", send_error_reply(request.id, Ptr(S_unknown_cmd), F),
                        F, "line_done")
    /\ UNCHANGED <<clock, store, locals, framer, wire, host, wake_at>>

\* -------------------------------------------------------- telemetry_task
\* supervisor_state_snapshot(&snapshot): take the mutex, first half of the copy
TelemetrySnapshot ==
    /\ pc["telemetry"] = "snapshot"
    /\ MutexAvailable
    /\ g_state_mutex' = "telemetry"
    /\ snapshot' = [snapshot EXCEPT !["telemetry"] = CopyFirstHalf(@, g_state)]
    /\ snapshot_done' = [snapshot_done EXCEPT !["telemetry"] = FALSE]
    /\ pc' = [pc EXCEPT !["telemetry"] = "snapshot_copy"]
    /\ UNCHANGED <<clock, g_state, history, sw, now_us, framer, payload, wire, host,
                   wake_at>>

\* (a snapshot that returns without xSemaphoreGive)
TelemetrySnapshotDone_holding ==
    /\ pc["telemetry"] = "snapshot_copy"
    /\ g_state_mutex' = "telemetry"
    /\ snapshot' = [snapshot EXCEPT !["telemetry"] = CopySecondHalf(@, g_state)]
    /\ snapshot_done' = [snapshot_done EXCEPT !["telemetry"] = TRUE]
    /\ pc' = [pc EXCEPT !["telemetry"] = "stamp"]
    /\ UNCHANGED <<clock, g_state, history, sw, now_us, framer, payload, wire, host,
                   wake_at>>

\* rest of the copy, xSemaphoreGive
TelemetrySnapshotDone ==
    /\ pc["telemetry"] = "snapshot_copy"
    /\ g_state_mutex' = "free"
    /\ snapshot' = [snapshot EXCEPT !["telemetry"] = CopySecondHalf(@, g_state)]
    /\ snapshot_done' = [snapshot_done EXCEPT !["telemetry"] = TRUE]
    /\ pc' = [pc EXCEPT !["telemetry"] = "stamp"]
    /\ UNCHANGED <<clock, g_state, history, sw, now_us, framer, payload, wire, host,
                   wake_at>>

\* now_us = esp_timer_get_time(); send_telemetry_event up to its writes
TelemetryEvent(F) ==
    /\ pc["telemetry"] = "stamp"
    /\ now_us' = [now_us EXCEPT !["telemetry"] = clock]
    /\ send_json_object("telemetry", send_telemetry_event(snapshot["telemetry"], clock, F),
                        F, "delay")
    /\ written' = [written EXCEPT !["telemetry"] = <<>>]
    /\ UNCHANGED <<clock, store, snapshot, snapshot_done, sw, framer, uart_tx, tx_first,
                   host, wake_at>>

\* (a delay counted from the timestamp of the cycle, not from its end)
TelemetryDelay_from_stamp ==
    /\ pc["telemetry"] = "delay"
    /\ wake_at' = U64Add(now_us["telemetry"], MsToUs(TELEMETRY_PERIOD_MS))
    /\ snapshot' = [snapshot EXCEPT !["telemetry"] = ZeroState]
    /\ snapshot_done' = [snapshot_done EXCEPT !["telemetry"] = FALSE]
    /\ now_us' = [now_us EXCEPT !["telemetry"] = U64Zero]
    /\ pc' = [pc EXCEPT !["telemetry"] = "sleeping"]
    /\ UNCHANGED <<clock, store, sw, framer, payload, wire, host>>

\* vTaskDelay(pdMS_TO_TICKS(TELEMETRY_PERIOD_MS)) is entered; the locals of
\* the cycle are not used again
TelemetryDelay ==
    /\ pc["telemetry"] = "delay"
    /\ wake_at' = U64Add(clock, MsToUs(TELEMETRY_PERIOD_MS))
    /\ snapshot' = [snapshot EXCEPT !["telemetry"] = ZeroState]
    /\ snapshot_done' = [snapshot_done EXCEPT !["telemetry"] = FALSE]
    /\ now_us' = [now_us EXCEPT !["telemetry"] = U64Zero]
    /\ pc' = [pc EXCEPT !["telemetry"] = "sleeping"]
    /\ UNCHANGED <<clock, store, sw, framer, payload, wire, host>>

\* ... and returns once the period has passed
TelemetryWake ==
    /\ pc["telemetry"] = "sleeping"
    /\ U64Leq(wake_at, clock)
    /\ wake_at' = U64Zero
    /\ pc' = [pc EXCEPT !["telemetry"] = "snapshot"]
    /\ UNCHANGED <<clock, store, locals, framer, payload, wire, host>>

\* ------------------------------------------------------------- the host
\* the peer starts sending one more line once the previous one is consumed
HostSend(menu) ==
    /\ pc["main"] # "state_init"
    /\ rx_pos > Len(rx_line)
    /\ \E l \in menu :
          /\ rx_line' = l
          /\ rx_pos' = 1
    /\ UNCHANGED <<clock, store, pc, locals, framer, payload, wire, wake_at>>

\* ------------------------------------------------------- specifications
NoFail == {{}}
OneFail == {{}} \cup {{k} : k \in ParseAlloc..EncodeAlloc}

Main(Fs) ==
    \/ MainInit
    \/ MainCreateReader
    \/ MainCreateTelemetry
    \/ \E F \in Fs : MainSwitchEvent(F)
    \/ WritePayload("main")
    \/ WriteNewline("main")

\* process_command from the dispatch on, for the commands on the whole record
StoreCommand(Fs) ==
    \/ ReaderLineDone
    \/ ReaderStatusSnapshot
    \/ \E F \in Fs : ReaderStatusResponse(F)
    \/ ReaderClearUnread
    \/ \E F \in Fs : ReaderClearStamp(F)
    \/ \E F \in Fs : ReaderArmPoweroff(F)
    \/ WritePayload("reader")
    \/ WriteNewline("reader")

\* ... and for the other branches
OtherCommand(Fs) ==
    \/ \E F \in Fs : ReaderSwitches(F)
    \/ \E F \in Fs : ReaderPing(F)
    \/ \E F \in Fs : ReaderUnknown(F)

Telemetry(Fs) ==
    \/ TelemetrySnapshot
    \/ TelemetrySnapshotDone
    \/ \E F \in Fs : TelemetryEvent(F)
    \/ WritePayload("telemetry")
    \/ WriteNewline("telemetry")
    \/ TelemetryDelay
    \/ TelemetryWake

\* the three tasks, the clock and a host sending the requests that read or
\* write the whole record; allocations succeed
Next ==
    \/ Main(NoFail)
    \/ \E F \in NoFail : ReaderLine(F)
    \/ StoreCommand(NoFail)
    \/ Telemetry(NoFail)
    \/ Tick
    \/ HostSend(StoreLines)

Spec == Init /\ [][Next]_vars

\* A state after startup: the telemetry task ran its first cycle as soon as
\* it was created and sleeps, app_main then sent the switch event and
\* returned, the reader waits for bytes.
InitReader ==
    /\ clock = U64(0, 0, BootUs)
    /\ g_state = supervisor_state_init(U64(0, 0, BootUs))
    /\ g_state_mutex = "free"
    /\ history = {supervisor_state_init(U64(0, 0, BootUs))}
    /\ pc = [main |-> "done", reader |-> "read", telemetry |-> "sleeping"]
    /\ snapshot = [t \in Tasks |-> ZeroState]
    /\ snapshot_done = [t \in Tasks |-> FALSE]
    /\ sw = [t \in Tasks |-> IF t = "main" THEN g_state.switches ELSE ZeroState.switches]
    /\ now_us = [t \in Tasks |-> U64Zero]
    /\ line = <<>>
    /\ len = 0
    /\ delivered = NotDelivered
    /\ after_overflow = FALSE
    /\ request = NoRequest
    /\ payload = [t \in Tasks |-> NullItem]
    /\ uart_tx = Chunk("main", TRUE)
    /\ tx_first = Chunk("telemetry", FALSE)
    /\ written = [t \in Tasks |->
                    CASE t = "main" ->
                           <<Bytes(FALSE, send_switch_event(g_state.switches, {}), clock),
                             Bytes(TRUE, NullItem, clock)>>
                      [] t = "telemetry" ->
                           <<Bytes(FALSE, send_telemetry_event(g_state, clock, {}), clock),
                             Bytes(TRUE, NullItem, clock)>>
                      [] OTHER -> <<>>]
    /\ rx_line = <<>>
    /\ rx_pos = 1
    /\ wake_at = U64Add(U64(0, 0, BootUs), MsToUs(TELEMETRY_PERIOD_MS))

\* the reader task alone, byte by byte, on every request shape
NextReader ==
    \/ \E F \in NoFail : ReaderByte(F)
    \/ StoreCommand(NoFail)
    \/ OtherCommand(NoFail)
    \/ Tick
    \/ HostSend(ReaderLines)

SpecReader == InitReader /\ [][NextReader]_vars

\* the reader task alone when one allocation of a line's processing may fail
NextOOM ==
    \/ \E F \in OneFail : ReaderLine(F)
    \/ StoreCommand(OneFail)
    \/ OtherCommand(OneFail)
    \/ Tick
    \/ HostSend(CommandLines)

SpecOOM == InitReader /\ [][NextOOM]_vars

\* --------------------------------------------- compute_last_msg_age alone
\* values of last_mesh_event_us, and of the timer, around every boundary of
\* compute_last_msg_age: zero, one second, INT_MAX seconds, a timer behind
LastSamples == {U64Zero, U64(0, 0, 1), U64(0, 1, 0), U64(5, 0, 1)}
NowSamples ==
    {U64Zero, U64(0, 0, 1), U64(0, 0, 999999), U64(0, 1, 0), U64(0, 1, 1),
     U64(0, 1, 999999), U64(0, 2, 1), U64(5, 0, 0), U64(5, 0, 1),
     U64(INT_MAX \div Million, INT_MAX % Million, 0),
     U64(INT_MAX \div Million, INT_MAX % Million, 1),
     U64(INT_MAX \div Million, (INT_MAX % Million) + 1, 0),
     U64(INT_MAX \div Million, (INT_MAX % Million) + 1, 1),
     U64(INT_MAX \div Million, (INT_MAX % Million) + 2, 0),
     U64(9000000, 0, 0)}

\* telemetry_task holds a snapshot and is about to read the timer
InitAge ==
    /\ clock \in NowSamples
    /\ g_state = supervisor_state_init(U64(0, 0, BootUs))
    /\ g_state_mutex = "free"
    /\ history = {g_state}
    /\ pc = [main |-> "done", reader |-> "read", telemetry |-> "stamp"]
    /\ \E last \in LastSamples :
          snapshot = [t \in Tasks |->
                        IF t = "telemetry"
                        THEN [g_state EXCEPT !.last_mesh_event_us = last]
                        ELSE ZeroState]
    /\ snapshot_done = [t \in Tasks |-> t = "telemetry"]
    /\ sw = [t \in Tasks |-> IF t = "main" THEN g_state.switches ELSE ZeroState.switches]
    /\ now_us = [t \in Tasks |-> U64Zero]
    /\ line = <<>>
    /\ len = 0
    /\ delivered = NotDelivered
    /\ after_overflow = FALSE
    /\ request = NoRequest
    /\ payload = [t \in Tasks |-> NullItem]
    /\ uart_tx = Chunk("main", TRUE)
    /\ tx_first = Chunk("main", FALSE)
    /\ written = [t \in Tasks |-> <<>>]
    /\ rx_line = <<>>
    /\ rx_pos = 1
    /\ wake_at = U64Zero

NextAge ==
    \/ \E F \in NoFail : TelemetryEvent(F)
    \/ WritePayload("telemetry")
    \/ WriteNewline("telemetry")
    \/ TelemetryDelay

SpecAge == InitAge /\ [][NextAge]_vars

\* ------------------------------------------------ both loops, with errors
\* cJSON_PrintUnformatted may fail for any message
EncodeFail == {{}, {EncodeAlloc}}

\* every command, a line that is not JSON and one longer than the buffer
FailLines ==
    CommandLines \cup {S_ping \o LF, Junk(SUPV_LINE_BUF + OverRun) \o LF}

\* the reader and the telemetry task after startup
NextFail ==
    \/ \E F \in NoFail : ReaderRun(F)
    \/ StoreCommand(EncodeFail)
    \/ OtherCommand(EncodeFail)
    \/ Telemetry(EncodeFail)
    \/ Tick
    \/ HostSend(FailLines)

SpecFail == InitReader /\ [][NextFail]_vars

\* a request of every kind the loops recover from, and the requests that
\* take the mutex
LiveLines ==
    { L_get_status, L_clear_unread, L_get_switches, L_ping, L_frobnicate, L_no_cmd,
      S_ping \o LF,                                 \* not JSON
      Junk(SUPV_LINE_BUF + OverRun) \o LF }         \* longer than the buffer

\* the steps of the reader task on these lines (fetching a line and parsing
\* it involve no encode)
ReaderStep ==
    \/ \E F \in NoFail : ReaderRun(F)
    \/ ReaderLineDone
    \/ ReaderStatusSnapshot
    \/ \E F \in EncodeFail : ReaderStatusResponse(F)
    \/ ReaderClearUnread
    \/ \E F \in EncodeFail : ReaderClearStamp(F)
    \/ OtherCommand(EncodeFail)
    \/ WritePayload("reader")
    \/ WriteNewline("reader")

NextLive ==
    \/ ReaderStep
    \/ Telemetry(EncodeFail)
    \/ Tick
    \/ HostSend(LiveLines)

\* Both tasks block only in uart_read_bytes, vTaskDelay and
\* xSemaphoreTake(g_state_mutex, portMAX_DELAY).  The scheduler is taken to
\* be fair: a task that is ready again and again runs, so a task waiting for
\* the mutex gets it although the other task takes it in between.
SpecLive ==
    /\ InitReader
    /\ [][NextLive]_vars
    /\ SF_vars(ReaderStep)
    /\ SF_vars(Telemetry(EncodeFail))

\* ============================================================ properties
BootTime == U64(0, 0, BootUs)
Wrote(task) == Len(written'[task]) = Len(written[task]) + 1
SomeoneWrote == \E t \in Tasks : Wrote(t)

\* C1: every snapshot a task holds once supervisor_state_snapshot or
\* supervisor_switch_snapshot has returned equals the whole record (or its
\* switches) as it was at one point of the mutation history; no snapshot mixes
\* fields from before and after a mutation.
C1_SnapshotIsOneState ==
    /\ \A t \in Tasks : snapshot_done[t] => snapshot[t] \in history
    /\ pc["main"] \in {"write_payload", "write_newline", "done"}
          => \E h \in history : sw["main"] = h.switches

\* a telemetry snapshot taken after both mutations have been applied
C1_Witness ==
    /\ snapshot_done["telemetry"]
    /\ snapshot["telemetry"].poweroff_armed
    /\ snapshot["telemetry"].last_mesh_event_us # BootTime
    /\ Cardinality(history) >= 3

\* C3: every message is written as a unit: after a task has written the text
\* of a message, the next bytes on the transport are that task's "\n".
C3_MessageIsOneUnit ==
    [][(SomeoneWrote /\ uart_tx.task # "none" /\ ~uart_tx.newline)
          => (uart_tx'.task = uart_tx.task /\ uart_tx'.newline)]_vars

\* C4: the startup switch event is the first message on the transport.
C4_SwitchEventFirst == tx_first \in {NoChunk, Chunk("main", FALSE)}

\* C9: last_mesh_event_us never decreases, and when handle_clear_unread
\* returns unread_ext is 0, however many times it has run.
C9_ClearUnread ==
    [][/\ U64Leq(g_state.last_mesh_event_us, g_state'.last_mesh_event_us)
       /\ (pc["reader"] = "clear_stamp" /\ pc'["reader"] # "clear_stamp")
             => g_state'.unread_ext = 0]_vars

\* clear_unread has run at a later time than startup
C9_Witness ==
    /\ g_state.unread_ext = 0
    /\ U64Less(BootTime, g_state.last_mesh_event_us)
    /\ pc["reader"] \in {"write_payload", "write_newline", "line_done"}
    /\ Branch(request.cmd) = "clear_unread"

\* ------------------------------------------------ requests and responses
\* the first member of a parsed object with exactly this name, or NullItem
FirstMember(obj, name) ==
    LET I == {i \in 1..Len(obj.child) : obj.child[i].string = name}
    IN  IF obj.type # "Object" \/ I = {} THEN NullItem
        ELSE obj.child[CHOOSE i \in I : \A j \in I : i <= j]
\* the text between the line terminators of a sent line
TextOf(l) == SelectSeq(l, LAMBDA c : c \notin {"\r", "\n"})
\* the delivered line is a JSON object whose cmd member is a string
HasStringCmd(text) == FirstMember(cJSON_Parse(text), S_cmd).type = "String"
CmdOf(text) == FirstMember(cJSON_Parse(text), S_cmd).valuestring
\* the reader has handed a response to the UART, or is about to
ReaderResponding == pc["reader"] = "write_payload" \/ written["reader"] # <<>>
ReaderResponse ==
    IF pc["reader"] = "write_payload" THEN payload["reader"]
    ELSE written["reader"][1].object
Keys(obj) == [i \in 1..Len(obj.child) |-> obj.child[i].string]
KeysButId(obj) == SelectSeq(Keys(obj), LAMBDA k : k # S_id)

\* C2: process_line is never called for a line the host sent with more than
\* SUPV_LINE_BUF - 1 bytes before its newline.
C2_LongLineDropped == delivered.called => delivered.bytes <= SUPV_LINE_BUF - 1

\* C5: from the delivery of a line that does not parse to a JSON object with
\* a string cmd until process_line returns, nothing is written to the
\* transport and the state record is not changed.
C5_MalformedIgnored ==
    [][(delivered'.called /\ ~HasStringCmd(delivered'.text))
          => /\ pc'["reader"] = "line_done"
             /\ written'["reader"] = <<>>
             /\ payload'["reader"] = NullItem
             /\ g_state' = g_state
             /\ uart_tx' = uart_tx]_vars

\* a line that is a JSON object but has a number for cmd was delivered
C5_Witness ==
    /\ delivered.called
    /\ delivered.text = TextOf(L_cmd_number)
    /\ pc["reader"] = "line_done"

\* the response the interface prescribes for a command, id aside
ShapeFor(obj, cmd) ==
    LET ok == FirstMember(obj, S_ok)
    IN  CASE cmd = S_get_status ->
               /\ KeysButId(obj) = <<S_ok, S_status>>
               /\ ok.type = "True"
               /\ FirstMember(obj, S_status).type = "Object"
          [] cmd = S_get_switches ->
               /\ KeysButId(obj) = <<S_ok, S_switch>>
               /\ ok.type = "True"
               /\ FirstMember(obj, S_switch).type = "Object"
          [] cmd = S_clear_unread ->
               /\ KeysButId(obj) = <<S_ok>>
               /\ ok.type = "True"
          [] cmd = S_arm_poweroff ->
               /\ KeysButId(obj) = <<S_ok, S_poweroff_ok>>
               /\ ok.type = "True"
               /\ FirstMember(obj, S_poweroff_ok).type = "True"
          [] cmd = S_ping ->
               /\ KeysButId(obj) = <<S_ok, S_uptime_s>>
               /\ ok.type = "True"
               /\ FirstMember(obj, S_uptime_s).type = "Number"
          [] OTHER ->
               /\ KeysButId(obj) = <<S_ok, S_error>>
               /\ ok.type = "False"
               /\ FirstMember(obj, S_error).type = "String"
               /\ FirstMember(obj, S_error).valuestring = S_unknown_cmd
KnownCommands == {S_get_status, S_get_switches, S_clear_unread, S_arm_poweroff, S_ping}

\* C6: for a delivered line that is a JSON object with a string cmd, the
\* reader writes exactly one response before process_line returns, of the
\* shape the exact value of cmd selects; a cmd outside the five known ones
\* gets ok:false with error unknown_cmd and leaves the state record alone.
C6_OneResponsePerCommand ==
    (delivered.called /\ HasStringCmd(delivered.text))
       => /\ pc["reader"] \in {"dispatch", "snapshot_copy", "clear_stamp",
                               "write_payload", "write_newline", "line_done"}
          /\ Len(written["reader"]) = CASE pc["reader"] = "write_newline" -> 1
                                        [] pc["reader"] = "line_done" -> 2
                                        [] OTHER -> 0
          /\ Len(written["reader"]) = 2 => written["reader"][2].newline
          /\ ReaderResponding
                => /\ ~IsNull(ReaderResponse)
                   /\ ShapeFor(ReaderResponse, CmdOf(delivered.text))
          /\ CmdOf(delivered.text) \notin KnownCommands => g_state = delivered.state

\* the reply to a command that only starts like a known one is complete
C6_Witness ==
    /\ delivered.called
    /\ delivered.text = TextOf(L_pings)
    /\ pc["reader"] = "line_done"
    /\ Len(written["reader"]) = 2

\* C7: a response carries the request's string id unchanged, and no id when
\* the request has none; {"cmd":"frobnicate","id":"z"} is answered with
\* exactly {"id":"z","ok":false,"error":"unknown_cmd"}.
C7_IdEchoed ==
    (delivered.called /\ HasStringCmd(delivered.text) /\ ReaderResponding)
       => LET id == FirstMember(cJSON_Parse(delivered.text), S_id)
              ids == SelectSeq(ReaderResponse.child, LAMBDA m : m.string = S_id)
          IN  /\ id.type = "String"
                    => ids = <<Item("String", S_id, id.valuestring, 0, <<>>)>>
              /\ IsNull(id) => ids = <<>>
              /\ delivered.text = TextOf(L_frobnicate)
                    => ReaderResponse.child =
                          << Item("String", S_id, S_z, 0, <<>>),
                             Item("False", S_ok, <<>>, 0, <<>>),
                             Item("String", S_error, S_unknown_cmd, 0, <<>>) >>

\* the reply to {"cmd":"frobnicate","id":"z"} has been written
C7_Witness ==
    /\ delivered.called
    /\ delivered.text = TextOf(L_frobnicate)
    /\ pc["reader"] = "line_done"
    /\ Len(written["reader"]) = 2

StatusKeys == <<S_battery_pct, S_pack_mv, S_pack_ma, S_mcu_temp_c, S_unread_ext,
                S_last_msg_age_s, S_heltec, S_mcu, S_uptime_s, S_switch>>
SwitchKeys == <<S_lte, S_wifi, S_bt, S_bridge_enable, S_lid_open, S_charger_online>>

\* C8: every response to {"cmd":"get_status","id":"abc"} is id "abc",
\* ok true, and a status object with exactly the ten fields, whose switch
\* member holds exactly the six booleans.
C8_StatusComplete ==
    (delivered.called /\ delivered.text = TextOf(L_get_status) /\ ReaderResponding)
       => LET status == FirstMember(ReaderResponse, S_status)
              switch == FirstMember(status, S_switch)
          IN  /\ Keys(ReaderResponse) = <<S_id, S_ok, S_status>>
              /\ FirstMember(ReaderResponse, S_id).valuestring = S_abc
              /\ FirstMember(ReaderResponse, S_ok).type = "True"
              /\ Keys(status) = StatusKeys
              /\ Keys(switch) = SwitchKeys
              /\ \A i \in 1..Len(switch.child) : switch.child[i].type \in {"True", "False"}

\* n seconds as a uint64_t count of microseconds
SecondsToUs(n) == U64(n \div Million, n % Million, 0)

\* C10: last_msg_age_s is 0 when last_mesh_event_us is 0 or the timer is
\* behind it; otherwise it is the whole number of seconds between the two
\* (last + age s <= now < last + (age + 1) s), or INT_MAX when that number
\* is larger; it is never negative.
C10_LastMsgAge ==
    pc["telemetry"] = "write_payload"
       => LET age == FirstMember(payload["telemetry"], S_last_msg_age_s).valuedouble
              last == snapshot["telemetry"].last_mesh_event_us
              now == now_us["telemetry"]
              from == U64Add(last, SecondsToUs(age))
          IN  /\ age >= 0
              /\ age <= INT_MAX
              /\ IF last = U64Zero \/ U64Less(now, last) THEN age = 0
                 ELSE /\ U64Leq(from, now)
                      /\ age < INT_MAX => U64Less(now, U64Add(from, SecondsToUs(1)))

\* an age that saturates, with a timestamp that is not zero
C10_Witness ==
    /\ pc["telemetry"] = "write_payload"
    /\ FirstMember(payload["telemetry"], S_last_msg_age_s).valuedouble = INT_MAX
    /\ snapshot["telemetry"].last_mesh_event_us = U64(0, 0, 1)
    /\ now_us["telemetry"] = U64(9000000, 0, 0)

\* the program points inside uart_read_bytes and uart_write_bytes
InTransportIO(task) ==
    \/ pc[task] \in {"write_payload", "write_newline"}
    \/ task = "reader" /\ pc[task] = "read"
\* the program points between xSemaphoreTake and xSemaphoreGive
InCriticalSection(task) == pc[task] \in {"snapshot_copy", "clear_stamp"}

\* C12: a task that holds g_state_mutex is inside one of the critical
\* sections, whose next step gives the mutex back without waiting for
\* anything, and never inside uart_read_bytes or uart_write_bytes; a task
\* outside the critical sections does not hold the mutex.
C12_NoIOUnderLock ==
    /\ g_state_mutex \in Tasks \cup {"null", "free"}
    /\ \A t \in Tasks :
          /\ g_state_mutex = t => InCriticalSection(t) /\ ~InTransportIO(t)
          /\ InCriticalSection(t) => g_state_mutex = t

\* the reader holds the mutex while the telemetry task is writing
C12_Witness ==
    /\ g_state_mutex = "reader"
    /\ pc["telemetry"] = "write_newline"

\* C13: poweroff_armed becomes true only in the step that processes an
\* arm_poweroff command, and once true it is true in every later state.
C13_PoweroffLatched ==
    [][/\ g_state.poweroff_armed => g_state'.poweroff_armed
       /\ (~g_state.poweroff_armed /\ g_state'.poweroff_armed)
             => Dispatching("arm_poweroff")]_vars

\* armed, and a clear_unread processed at a later time
C13_Witness ==
    /\ g_state.poweroff_armed
    /\ U64Less(BootTime, g_state.last_mesh_event_us)
    /\ pc["telemetry"] = "sleeping"

\* C20: 0 <= len <= SUPV_LINE_BUF - 1, and the buffer holds len bytes.
C20_LenInBuffer ==
    /\ len >= 0
    /\ len <= SUPV_LINE_BUF - 1
    /\ Len(line) = len

\* a line that fills the buffer up to the byte kept for the terminator
C20_Witness ==
    /\ len = SUPV_LINE_BUF - 1
    /\ pc["reader"] = "read"

\* the step in which the reader takes the "\n" that ends the line being sent
LineEnd == rx_line # <<>> /\ rx_line' = <<>>

\* C17: at the end of a line of at most 511 bytes (not counting "\r"),
\* process_line is called with exactly the line's bytes without "\r" if
\* there are any, and is not called otherwise; the buffer is empty whenever
\* the reader fetches the first byte of a line.
C17_LinesDelivered ==
    [][/\ (LineEnd /\ LineBytes(rx_line) <= SUPV_LINE_BUF - 1)
             => IF TextOf(rx_line) = <<>>
                THEN ~delivered'.called /\ pc'["reader"] = "read"
                ELSE delivered'.called /\ delivered'.text = TextOf(rx_line)
       /\ (pc'["reader"] = "read" /\ rx_pos' = 1) => (len' = 0 /\ line' = <<>>)]_vars

\* C18: when the line that ended last had overflowed the buffer, the buffer
\* is empty at the start of the next line, and a request of at most 511
\* bytes that follows is handed to process_line byte for byte and accepted
\* by process_command.
C18_RecoversAfterOverflow ==
    [][/\ (pc'["reader"] = "read" /\ rx_pos' = 1 /\ after_overflow')
             => (len' = 0 /\ line' = <<>>)
       /\ (LineEnd /\ after_overflow /\ rx_line \in CommandLines \ {L_no_cmd})
             => /\ delivered'.called
                /\ delivered'.buffer = TextOf(rx_line)
                /\ delivered'.text = TextOf(rx_line)
                /\ request'.valid
                /\ pc'["reader"] = "dispatch"]_vars

\* a request stands whole in the buffer, right after a line that overflowed
C18_Witness ==
    /\ after_overflow
    /\ pc["reader"] = "read"
    /\ rx_line = L_get_status
    /\ rx_pos = Len(rx_line)
    /\ line = TextOf(L_get_status)

\* the time of the last uart_write_bytes call of the latest telemetry event
TelemetrySentAt == written["telemetry"][Len(written["telemetry"])].at

\* C15: when the telemetry task is back from its delay, up to the moment it
\* has taken the next snapshot, at least TELEMETRY_PERIOD_MS have passed
\* since it finished sending the previous event.
C15_FixedDelay ==
    (pc["telemetry"] \in {"snapshot", "snapshot_copy", "stamp"}
        /\ written["telemetry"] # <<>>)
       => U64Leq(U64Add(TelemetrySentAt, MsToUs(TELEMETRY_PERIOD_MS)), clock)

\* the second cycle has taken its snapshot
C15_Witness ==
    /\ pc["telemetry"] = "stamp"
    /\ Len(written["telemetry"]) = 2
    /\ TelemetrySentAt = BootTime

\* a task has just built a message that reports last_msg_age_s
BuiltAgeReport(task) ==
    /\ pc[task] # "write_payload"
    /\ pc'[task] = "write_payload"
    /\ Len(payload'[task].child) > 0
    /\ \/ ~IsNull(FirstMember(payload'[task], S_last_msg_age_s))
       \/ ~IsNull(FirstMember(payload'[task], S_status))
ReportedAge(obj) ==
    IF IsNull(FirstMember(obj, S_status))
    THEN FirstMember(obj, S_last_msg_age_s).valuedouble
    ELSE FirstMember(FirstMember(obj, S_status), S_last_msg_age_s).valuedouble

\* C11: once a clear_unread has been processed (at time t, now held in
\* last_mesh_event_us), every status reply and telemetry event built
\* afterwards reports the whole seconds from t to the message's timestamp.
C11_AgeSinceClear ==
    [][\A task \in {"reader", "telemetry"} :
          (BuiltAgeReport(task) /\ U64Less(BootTime, g_state.last_mesh_event_us))
             => LET age == ReportedAge(payload'[task])
                    from == U64Add(g_state.last_mesh_event_us, SecondsToUs(age))
                IN  /\ U64Leq(from, now_us'[task])
                    /\ U64Less(now_us'[task], U64Add(from, SecondsToUs(1)))]_vars

\* the fields of g_state a step changes
ChangedFields == {f \in DOMAIN g_state : g_state'[f] # g_state[f]}

\* the fields no operation of this firmware writes after supervisor_state_init
DefaultFields == {"battery_pct", "pack_mv", "pack_ma", "mcu_temp_c", "heltec",
                  "mcu", "switches"}

\* C19: after supervisor_state_init, a step that changes g_state is the
\* reader inside handle_clear_unread changing nothing but unread_ext and
\* last_mesh_event_us, or the reader in handle_arm_poweroff changing nothing
\* but poweroff_armed; every other step (get_status, get_switches, ping,
\* unknown commands, dropped lines, telemetry, the switch event) leaves the
\* record as it is, and the other seven fields keep their startup values.
C19_OnlyTwoWriters ==
    /\ [][g_state' # g_state =>
            \/ /\ pc["main"] = "state_init"
               /\ g_state' = supervisor_state_init(clock)
            \/ /\ Dispatching("clear_unread") \/ pc["reader"] = "clear_stamp"
               /\ pc'["reader"] # pc["reader"]
               /\ ChangedFields \subseteq {"unread_ext", "last_mesh_event_us"}
            \/ /\ Dispatching("arm_poweroff")
               /\ pc'["reader"] # pc["reader"]
               /\ ChangedFields = {"poweroff_armed"}]_vars
    /\ [](pc["main"] # "state_init" =>
            \A f \in DefaultFields : g_state[f] = supervisor_state_init(U64Zero)[f])

\* both writers have written, and a get_switches was answered after them
C19_Witness ==
    /\ g_state.poweroff_armed
    /\ U64Less(BootTime, g_state.last_mesh_event_us)
    /\ pc["reader"] = "line_done"
    /\ request.valid
    /\ Branch(request.cmd) = "get_switches"
    /\ Len(written["reader"]) = 2

\* the step in which `task` calls send_json_object and the encode fails
SendFails(task) ==
    IF task = "reader"
    THEN \/ ReaderStatusResponse({EncodeAlloc})
         \/ ReaderSwitches({EncodeAlloc})
         \/ ReaderClearStamp({EncodeAlloc})
         \/ ReaderArmPoweroff({EncodeAlloc})
         \/ ReaderPing({EncodeAlloc})
         \/ ReaderUnknown({EncodeAlloc})
    ELSE TelemetryEvent({EncodeAlloc})

\* C14: when cJSON_PrintUnformatted fails, the task writes nothing to the
\* UART, neither payload nor newline, and is next where it would be after a
\* completed send: the reader back from process_line, telemetry at its
\* delay.  A task at that point has written a whole message or nothing.
C14_EncodeFailureDrops ==
    /\ [][\A task \in {"reader", "telemetry"} :
            SendFails(task) =>
               /\ pc'[task] = AfterSend(task)
               /\ written'[task] = <<>>
               /\ uart_tx' = uart_tx
               /\ tx_first' = tx_first
               /\ IsNull(payload'[task])]_vars
    /\ [](\A task \in {"reader", "telemetry"} :
            pc[task] = AfterSend(task) => Len(written[task]) \in {0, 2})

\* a valid request and a telemetry cycle, both without a message
C14_Witness ==
    /\ pc["reader"] = "line_done"
    /\ request.valid
    /\ written["reader"] = <<>>
    /\ pc["telemetry"] = "delay"
    /\ written["telemetry"] = <<>>

\* the lines that carry a command: valid JSON objects with a string cmd
RequestLines == LiveLines \cap (CommandLines \ {L_no_cmd})

\* process_line is back having written n chunks
Returned(n) == pc["reader"] = "line_done" /\ Len(written["reader"]) = n

\* the reader is about to fetch bytes of a line, any line or a request
Fetching == pc["reader"] = "read" /\ rx_line # <<>>
FetchingRequest == pc["reader"] = "read" /\ rx_line \in RequestLines

\* the delay of the telemetry task is over
TelemetryDue == pc["telemetry"] = "sleeping" /\ U64Leq(wake_at, clock)

====
